---- MODULE Spec2Model ----
(***************************************************************************)
(* SPI-slave -> UDP bridge of the ESP32-C3 firmware.                       *)
(*                                                                         *)
(* Two builds of app_main are modelled: the BLE-provisioning build         *)
(* (esp32c3/main/app_main.c, variant "prov") and the static-credential     *)
(* build (unnamed/part_001, variant "simple").  The forwarding loop is the *)
(* same code in both.  The SPI master (K210), the Wi-Fi stack and the      *)
(* provisioning phone app are the environment.                             *)
(***************************************************************************)
EXTENDS Integers, Sequences, FiniteSets, TLC

\* ---------------------------------------------------------------- constants
HDR_LEN == 10
PAYLOAD_MAX == 2048
\* spi_bus_config_t.max_transfer_sz = (PAYLOAD_MAX > HDR_LEN ? PAYLOAD_MAX : HDR_LEN)
max_transfer_sz == IF PAYLOAD_MAX > HDR_LEN THEN PAYLOAD_MAX ELSE HDR_LEN

\* ------------------------------------------------------------------- bounds
MaxIter == 2          \* loop iterations explored
MaxConnects == 2      \* esp_wifi_connect() requests explored
ShortLen == 3         \* bytes clocked by a master that ends a transaction early

\* ------------------------------------------------------- environment inputs
\* bytes 0..7 of the headers the master sends (frame_id, chunk_id, flags, rsv)
HdrPrefixes == { <<1, 0, 0, 0, 2, 0, 0, 0>>, <<255, 1, 0, 128, 7, 9, 64, 255>> }
\* payload_len values the master declares
DeclaredLens == { 0, 5, 261, 2048, 2049 }
\* first payload byte of the payloads the master sends
PayloadSeeds == { 170, 1 }
\* return values of sendto(): bytes sent, or -1
SendRets == { 0, -1 }

\* marks a byte of an automatic array that has not been written
Indeterminate == -1

Min(a, b) == IF a < b THEN a ELSE b

\* memset(buf, 0, n)
ZeroFill(n) == [i \in 1..n |-> 0]

\* an automatic array right after its declaration
Uninit(n) == [i \in 1..n |-> Indeterminate]

\* the header the master clocks out: prefix, then payload_len little-endian
PeerHeader(prefix, declared) == prefix \o << declared % 256, declared \div 256 >>

\* the payload the master clocks out: n bytes stepping by 0x11 from seed
PeerPayload(seed, n) == [i \in 1..n |-> (seed + 17 * (i - 1)) % 256]

\* the bytes a slave transaction of lenBits bits takes from the master's bytes
Clocked(tx, lenBits) == SubSeq(tx, 1, Min(Len(tx), lenBits \div 8))

\* rx_buffer after a transaction: the clocked bytes overwrite its head only
RxInto(buf, rx) == [i \in 1..Len(buf) |-> IF i <= Len(rx) THEN rx[i] ELSE buf[i]]

\* variant of DecodeLen: the two length bytes are read big-endian
DecodeLen_bigEndian(h) == (h[10] + 256 * h[9]) % 65536

\* uint16_t payload_len = (uint16_t)(hdr[8] | ((uint16_t)hdr[9] << 8));
DecodeLen(h) == (h[9] + 256 * h[10]) % 65536

\* variant of ClampLen: the limit is the size of out, not of payload
ClampLen_toOutSize(n) == IF n > HDR_LEN + PAYLOAD_MAX THEN HDR_LEN + PAYLOAD_MAX ELSE n

\* variant of ClampLen: the clamp is missing
ClampLen_none(n) == n

\* if (payload_len > PAYLOAD_MAX) payload_len = PAYLOAD_MAX;
ClampLen(n) == IF n > PAYLOAD_MAX THEN PAYLOAD_MAX ELSE n

\* variant of Memcpy: the copy starts one byte late
Memcpy_offByOne(dst, off, src, n) ==
    [i \in 1..Len(dst) |-> IF i > off + 1 /\ i <= off + n THEN src[i - off] ELSE dst[i]]

\* memcpy(dst + off, src, n)
Memcpy(dst, off, src, n) ==
    [i \in 1..Len(dst) |-> IF i > off /\ i <= off + n THEN src[i - off] ELSE dst[i]]

\* spi_slave_queue_trans: a transaction longer than the bus maximum is refused
QueueOk(lenBits) == lenBits <= max_transfer_sz * 8

VARIABLES
    variant,        \* "prov" | "simple": which app_main was built
    pc,             \* position of the main task
    connected,      \* WIFI_CONNECTED_BIT of s_wifi_event_group
    handlers,       \* wifi_event_handler registered
    link,           \* Wi-Fi station: "off" | "down" | "connecting" | "up"
    staStart,       \* WIFI_EVENT_STA_START posted and not yet handled
    provisioned,    \* credentials stored (network_prov_mgr_is_wifi_provisioned)
    provState,      \* provisioning manager: "none" | "inited" | "running" | "deinit"
    provDeinits,    \* calls of network_prov_mgr_deinit
    connectReqs,    \* calls of esp_wifi_connect
    udp_sock,       \* -1, or the socket descriptor
    rdy,            \* level of PIN_RDY
    rdyWrites,      \* set_rdy(1) calls in the current iteration
    rdyEdges,       \* level changes of PIN_RDY in the current iteration
    hdr, payload, out,          \* the three buffers of the loop
    payload_len,    \* the clamped payload_len of the current iteration
    t_length,       \* t.length, bits
    rxHdr, rxPayload,           \* bytes clocked in by this iteration's transactions
    iter,           \* iterations started
    hdrRecvs, payRecvs,         \* completed header / payload receives
    sendCount,      \* sendto calls
    sendAttempts,   \* sendto calls in the current iteration
    datagram,       \* the bytes handed to sendto in the current iteration
    lastRet,        \* what that sendto returned (the code discards it)
    prevLen,        \* payload_len of the previous iteration
    txPhase,        \* SPI master: "hdr" | "payload", the transaction it performs next
    txDeclared,     \* SPI master: payload_len of the unit whose payload is due
    inSync,         \* every header receive took a header, every payload receive a payload
    wifiEvents,     \* STA_START / STA_DISCONNECTED events delivered to wifi_event_handler
    busFailed       \* "none" | "hdr" | "payload": spi_slave_transmit returned an error

vars == << variant, pc, connected, handlers, link, staStart, provisioned, provState,
           provDeinits, connectReqs, udp_sock, rdy, rdyWrites, rdyEdges, hdr, payload,
           out, payload_len, t_length, rxHdr, rxPayload, iter, hdrRecvs, payRecvs,
           sendCount, sendAttempts, datagram, lastRet, prevLen, txPhase, txDeclared,
           inSync, wifiEvents, busFailed >>

netVars == << connected, handlers, link, staStart, provisioned, provState,
              provDeinits, connectReqs, wifiEvents >>
peerVars == << txPhase, txDeclared, inSync >>
loopVars == << rdy, rdyWrites, rdyEdges, hdr, payload, out, payload_len, t_length,
               rxHdr, rxPayload, iter, hdrRecvs, payRecvs, sendCount, sendAttempts,
               datagram, lastRet, prevLen, busFailed, peerVars >>

Init ==
    /\ variant \in {"prov", "simple"}
    /\ pc = "start"
    /\ connected = FALSE
    /\ handlers = FALSE
    /\ link = "off"
    /\ staStart = FALSE
    /\ provisioned \in (IF variant = "prov" THEN BOOLEAN ELSE {TRUE})
    /\ provState = "none"
    /\ provDeinits = 0
    /\ connectReqs = 0
    /\ udp_sock = -1
    /\ rdy = 0
    /\ rdyWrites = 0
    /\ rdyEdges = 0
    /\ hdr = Uninit(HDR_LEN)
    /\ payload = Uninit(PAYLOAD_MAX)
    /\ out = Uninit(HDR_LEN + PAYLOAD_MAX)
    /\ payload_len = 0
    /\ t_length = 0
    /\ rxHdr = << >>
    /\ rxPayload = << >>
    /\ iter = 0
    /\ hdrRecvs = 0
    /\ payRecvs = 0
    /\ sendCount = 0
    /\ sendAttempts = 0
    /\ datagram = << >>
    /\ lastRet = 0
    /\ prevLen = 0
    /\ txPhase = "hdr"
    /\ txDeclared = 0
    /\ inSync = TRUE
    /\ wifiEvents = 0
    /\ busFailed = "none"

\* ------------------------------------------------------------ main task
\* ESP_ERROR_CHECK(x): abort() unless x returned ESP_OK
Abort == pc' = "aborted"

\* app_main, NVS part.  prov: only NO_FREE_PAGES/NEW_VERSION_FOUND are looked
\* at (erase, re-init, both checked); simple: ESP_ERROR_CHECK(nvs_flash_init()).
NvsInit ==
    /\ pc = "start"
    /\ \E err \in {"ok", "no_free_pages", "other"}, retry \in BOOLEAN :
         IF variant = "prov"
         THEN IF err = "no_free_pages" /\ ~retry THEN Abort ELSE pc' = "wifi_init"
         ELSE IF err = "ok" THEN pc' = "wifi_init" ELSE Abort
    /\ UNCHANGED << variant, netVars, udp_sock, loopVars >>

\* wifi_init_base (prov): event group created, handlers registered, STA started.
\* wifi_init_sta_simple (simple): no handler; config set, started, esp_wifi_connect().
WifiInit ==
    /\ pc = "wifi_init"
    /\ \E ok \in BOOLEAN :
         IF ~ok
         THEN Abort /\ UNCHANGED << connected, handlers, link, staStart, connectReqs >>
         ELSE IF variant = "prov"
              THEN /\ connected' = FALSE
                   /\ handlers' = TRUE
                   /\ link' = "down"
                   /\ staStart' = TRUE
                   /\ pc' = "prov_init"
                   /\ UNCHANGED connectReqs
              ELSE /\ link' = "connecting"
                   /\ connectReqs' = connectReqs + 1
                   /\ pc' = "delay"
                   /\ UNCHANGED << connected, handlers, staStart >>
    /\ UNCHANGED << variant, provisioned, provState, provDeinits, wifiEvents, udp_sock,
                    loopVars >>

\* ESP_ERROR_CHECK(network_prov_mgr_init(prov_cfg)); handler registration
ProvMgrInit ==
    /\ pc = "prov_init"
    /\ \E ok \in BOOLEAN :
         IF ok THEN pc' = "prov_if_needed" /\ provState' = "inited"
               ELSE Abort /\ UNCHANGED provState
    /\ UNCHANGED << variant, connected, handlers, link, staStart, provisioned,
                    provDeinits, connectReqs, wifiEvents, udp_sock, loopVars >>

\* ble_provisioning_if_needed up to its wait: returns at once when provisioned,
\* else starts provisioning and blocks on WIFI_CONNECTED_BIT
BleProvisioningIfNeeded ==
    /\ pc = "prov_if_needed"
    /\ \E ok \in BOOLEAN :
         IF ~ok THEN Abort /\ UNCHANGED provState
         ELSE IF provisioned
              THEN pc' = "wait_bits" /\ UNCHANGED provState
              ELSE pc' = "prov_wait" /\ provState' = "running"
    /\ UNCHANGED << variant, connected, handlers, link, staStart, provisioned,
                    provDeinits, connectReqs, wifiEvents, udp_sock, loopVars >>

\* xEventGroupWaitBits(..., pdFALSE, pdTRUE, portMAX_DELAY) returns inside
\* ble_provisioning_if_needed; network_prov_mgr_deinit()
ProvWaitDone ==
    /\ pc = "prov_wait"
    /\ connected
    /\ provState' = "deinit"
    /\ provDeinits' = provDeinits + 1
    /\ pc' = "wait_bits"
    /\ UNCHANGED << variant, connected, handlers, link, staStart, provisioned,
                    connectReqs, wifiEvents, udp_sock, loopVars >>

\* variant of WaitBitsDone: the second network_prov_mgr_deinit() is missing
WaitBitsDone_noDeinit ==
    /\ pc = "wait_bits"
    /\ connected
    /\ pc' = "udp_init"
    /\ UNCHANGED << variant, netVars, udp_sock, loopVars >>

\* app_main: xEventGroupWaitBits returns; network_prov_mgr_deinit()
WaitBitsDone ==
    /\ pc = "wait_bits"
    /\ connected
    /\ provState' = "deinit"
    /\ provDeinits' = provDeinits + 1
    /\ pc' = "udp_init"
    /\ UNCHANGED << variant, connected, handlers, link, staStart, provisioned,
                    connectReqs, wifiEvents, udp_sock, loopVars >>

\* simple: vTaskDelay(pdMS_TO_TICKS(3000)) returns, whatever the link did
DelayDone ==
    /\ pc = "delay"
    /\ pc' = "udp_init"
    /\ UNCHANGED << variant, netVars, udp_sock, loopVars >>

\* udp_init: socket() < 0 aborts
UdpInit ==
    /\ pc = "udp_init"
    /\ \E fd \in {-1, 54} :
         /\ udp_sock' = fd
         /\ IF fd < 0 THEN Abort ELSE pc' = "spi_init"
    /\ UNCHANGED << variant, netVars, loopVars >>

\* variant of set_rdy: the level is written inverted
set_rdy_inverted(pin, v) ==
    [level  |-> 1 - v,
     writes |-> pin.writes + 1,
     edges  |-> pin.edges + (IF pin.level # 1 - v THEN 1 ELSE 0)]

\* static inline void set_rdy(int v) { gpio_set_level(PIN_RDY, v); }
\* pin = [level, writes, edges]; the result is the pin after the call
set_rdy(pin, v) ==
    [level  |-> v,
     writes |-> pin.writes + 1,
     edges  |-> pin.edges + (IF pin.level # v THEN 1 ELSE 0)]

\* variant of Memset0: the buffer is not cleared
Memset0_skip(buf) == buf

\* memset(buf, 0, sizeof(buf))
Memset0(buf) == ZeroFill(Len(buf))

\* spi_slave_init_bus: RDY configured as output and raised, SPI slave initialised
SpiSlaveInitBus ==
    /\ pc = "spi_init"
    /\ \E ok \in BOOLEAN :
         IF ~ok
         THEN Abort /\ UNCHANGED << rdy, rdyWrites, rdyEdges >>
         ELSE LET p == set_rdy([level |-> rdy, writes |-> rdyWrites, edges |-> rdyEdges], 1)
              IN  /\ rdy' = p.level
                  /\ rdyWrites' = p.writes
                  /\ rdyEdges' = p.edges
                  /\ pc' = "loop_top"
    /\ UNCHANGED << variant, netVars, udp_sock, peerVars, hdr, payload, out, payload_len, t_length,
                    rxHdr, rxPayload, iter, hdrRecvs, payRecvs, sendCount, sendAttempts,
                    datagram, lastRet, prevLen, busFailed >>

\* while (1) { set_rdy(1); memset t, hdr; t.length = HDR_LEN * 8; t.rx_buffer = hdr;
\*             spi_slave_transmit(...)   <- queued, the task blocks
LoopTop ==
    /\ pc = "loop_top"
    /\ iter < MaxIter
    /\ iter' = iter + 1
    /\ LET p == set_rdy([level |-> rdy, writes |-> 0, edges |-> 0], 1)
       IN  /\ rdy' = p.level
           /\ rdyWrites' = p.writes
           /\ rdyEdges' = p.edges
    /\ hdr' = Memset0(hdr)
    /\ t_length' = HDR_LEN * 8
    /\ out' = Uninit(HDR_LEN + PAYLOAD_MAX)
    /\ rxHdr' = << >>
    /\ rxPayload' = << >>
    /\ datagram' = << >>
    /\ sendAttempts' = 0
    /\ lastRet' = 0
    /\ prevLen' = payload_len
    /\ IF QueueOk(t_length')
       THEN pc' = "wait_hdr" /\ UNCHANGED busFailed
       ELSE Abort /\ busFailed' = "hdr"
    /\ UNCHANGED << variant, netVars, udp_sock, peerVars, payload, payload_len, hdrRecvs, payRecvs,
                    sendCount >>

\* variant of HeaderRecv: the payload receive is skipped, the header goes straight out
HeaderRecv_noPayloadRecv(tx) ==
    /\ pc = "wait_hdr"
    /\ \E rx \in {Clocked(tx, t_length)} : \E h \in {RxInto(hdr, rx)} :
           /\ rxHdr' = rx
           /\ hdr' = h
           /\ hdrRecvs' = hdrRecvs + 1
           /\ payload_len' = ClampLen(DecodeLen(h))
           /\ \E o \in {Memcpy(out, 0, h, HDR_LEN)} :
                  out' = Memcpy(o, HDR_LEN, payload, payload_len')
    /\ pc' = "forward"
    /\ UNCHANGED << variant, netVars, udp_sock, rdy, rdyWrites, rdyEdges, payload, t_length,
                    rxPayload, iter, payRecvs, sendCount, sendAttempts, datagram, lastRet,
                    prevLen, busFailed >>

\* the header transaction completes with ESP_OK: the master clocked the bytes tx.
\* Then: decode, clamp, set_rdy(1), memset t, payload; t.length = payload_len * 8;
\* t.rx_buffer = payload; spi_slave_transmit(...)   <- queued, the task blocks
HeaderRecv(tx) ==
    /\ pc = "wait_hdr"
    /\ \E rx \in {Clocked(tx, t_length)} : \E h \in {RxInto(hdr, rx)} :
       LET plen == ClampLen(DecodeLen(h))
           p    == set_rdy([level |-> rdy, writes |-> rdyWrites, edges |-> rdyEdges], 1)
       IN  /\ rxHdr' = rx
           /\ hdr' = h
           /\ hdrRecvs' = hdrRecvs + 1
           /\ payload_len' = plen
           /\ rdy' = p.level
           /\ rdyWrites' = p.writes
           /\ rdyEdges' = p.edges
           /\ payload' = Memset0(payload)
           /\ t_length' = plen * 8
           /\ IF QueueOk(plen * 8)
              THEN pc' = "wait_payload" /\ UNCHANGED busFailed
              ELSE Abort /\ busFailed' = "payload"
    /\ UNCHANGED << variant, netVars, udp_sock, out, rxPayload, iter, payRecvs, sendCount,
                    sendAttempts, datagram, lastRet, prevLen >>

\* variant of PayloadRecv: RDY is taken low once the payload is in
PayloadRecv_rdyLow(tx) ==
    /\ pc = "wait_payload"
    /\ \E rx \in {Clocked(tx, t_length)} :
           /\ rxPayload' = rx
           /\ \E pl \in {RxInto(payload, rx)}, o \in {Memcpy(out, 0, hdr, HDR_LEN)} :
                  /\ payload' = pl
                  /\ payRecvs' = payRecvs + 1
                  /\ out' = Memcpy(o, HDR_LEN, pl, payload_len)
    /\ LET p == set_rdy([level |-> rdy, writes |-> rdyWrites, edges |-> rdyEdges], 0)
       IN  /\ rdy' = p.level
           /\ rdyEdges' = p.edges
    /\ pc' = "forward"
    /\ UNCHANGED << variant, netVars, udp_sock, rdyWrites, hdr, payload_len,
                    t_length, rxHdr, iter, hdrRecvs, sendCount, sendAttempts, datagram,
                    lastRet, prevLen, busFailed >>

\* the payload transaction completes with ESP_OK: the master clocked the bytes tx.
\* Then: uint8_t out[HDR_LEN + PAYLOAD_MAX]; memcpy(out, hdr, HDR_LEN);
\*       memcpy(out + HDR_LEN, payload, payload_len);
PayloadRecv(tx) ==
    /\ pc = "wait_payload"
    /\ \E rx \in {Clocked(tx, t_length)} :
           /\ rxPayload' = rx
           /\ \E pl \in {RxInto(payload, rx)}, o \in {Memcpy(out, 0, hdr, HDR_LEN)} :
                  /\ payload' = pl
                  /\ payRecvs' = payRecvs + 1
                  /\ out' = Memcpy(o, HDR_LEN, pl, payload_len)
    /\ pc' = "forward"
    /\ UNCHANGED << variant, netVars, udp_sock, rdy, rdyWrites, rdyEdges, hdr, payload_len,
                    t_length, rxHdr, iter, hdrRecvs, sendCount, sendAttempts, datagram,
                    lastRet, prevLen, busFailed >>

\* SPI master (K210), after clocking out a header that declares `declared`: its
\* payload transaction is due next; with nothing to send (declared = 0) it either
\* issues an empty transaction (empty) or none and goes on to its next header.
MasterSentHeader(declared, empty) ==
    IF declared = 0 /\ ~empty
    THEN txPhase' = "hdr" /\ txDeclared' = 0
    ELSE txPhase' = "payload" /\ txDeclared' = declared

\* SPI master, after its payload transaction: its next header is due
MasterSentPayload ==
    /\ txPhase' = "hdr"
    /\ txDeclared' = 0

\* header receive completed by the master's header transaction, n bytes clocked
HeaderDone(prefix, declared, n) ==
    /\ txPhase = "hdr"
    /\ MasterSentHeader(declared, TRUE)
    /\ HeaderRecv(SubSeq(PeerHeader(prefix, declared), 1, n))
    /\ UNCHANGED inSync

\* payload receive completed by the master's payload transaction, n bytes clocked
PayloadDone(seed, n) ==
    /\ txPhase = "payload"
    /\ MasterSentPayload
    /\ PayloadRecv(PeerPayload(seed, n))
    /\ UNCHANGED inSync

\* header receive completed by a header that declares no payload, after which the
\* master performs no payload transaction
HeaderDoneNoEmptyTx(prefix) ==
    /\ txPhase = "hdr"
    /\ MasterSentHeader(0, FALSE)
    /\ HeaderRecv(PeerHeader(prefix, 0))
    /\ UNCHANGED inSync

\* header receive completed by the master's payload transaction: the master is
\* one transaction ahead of the loop
HeaderDoneOutOfStep(seed) ==
    /\ txPhase = "payload"
    /\ MasterSentPayload
    /\ HeaderRecv(PeerPayload(seed, txDeclared))
    /\ inSync' = FALSE

\* payload receive completed by the master's next header transaction
PayloadDoneOutOfStep(prefix, declared, empty) ==
    /\ txPhase = "hdr"
    /\ MasterSentHeader(declared, empty)
    /\ PayloadRecv(PeerHeader(prefix, declared))
    /\ inSync' = FALSE

\* variant of Forward: header and payload go out as two datagrams
Forward_twice(ret) ==
    /\ pc = "forward"
    /\ datagram' = SubSeq(out, 1, HDR_LEN + payload_len)
    /\ sendCount' = sendCount + 2
    /\ sendAttempts' = sendAttempts + 2
    /\ lastRet' = ret
    /\ pc' = "loop_top"
    /\ UNCHANGED << variant, netVars, udp_sock, peerVars, rdy, rdyWrites, rdyEdges, hdr, payload, out,
                    payload_len, t_length, rxHdr, rxPayload, iter, hdrRecvs, payRecvs,
                    prevLen, busFailed >>

\* variant of Forward: a failed sendto is fatal
Forward_abortOnFail(ret) ==
    /\ pc = "forward"
    /\ datagram' = SubSeq(out, 1, HDR_LEN + payload_len)
    /\ sendCount' = sendCount + 1
    /\ sendAttempts' = sendAttempts + 1
    /\ lastRet' = ret
    /\ pc' = IF ret < 0 THEN "aborted" ELSE "loop_top"
    /\ UNCHANGED << variant, netVars, udp_sock, peerVars, rdy, rdyWrites, rdyEdges, hdr, payload, out,
                    payload_len, t_length, rxHdr, rxPayload, iter, hdrRecvs, payRecvs,
                    prevLen, busFailed >>

\* variant of Forward: the length passed to sendto leaves out the header
Forward_noHdrLen(ret) ==
    /\ pc = "forward"
    /\ datagram' = SubSeq(out, 1, payload_len)
    /\ sendCount' = sendCount + 1
    /\ sendAttempts' = sendAttempts + 1
    /\ lastRet' = ret
    /\ pc' = "loop_top"
    /\ UNCHANGED << variant, netVars, udp_sock, peerVars, rdy, rdyWrites, rdyEdges, hdr, payload, out,
                    payload_len, t_length, rxHdr, rxPayload, iter, hdrRecvs, payRecvs,
                    prevLen, busFailed >>

\* variant of Forward: a failed sendto is tried again
Forward_retry(ret) ==
    /\ pc = "forward"
    /\ datagram' = SubSeq(out, 1, HDR_LEN + payload_len)
    /\ sendCount' = sendCount + 1
    /\ sendAttempts' = sendAttempts + 1
    /\ lastRet' = ret
    /\ pc' = IF ret < 0 /\ sendAttempts < 1 THEN "forward" ELSE "loop_top"
    /\ UNCHANGED << variant, netVars, udp_sock, peerVars, rdy, rdyWrites, rdyEdges, hdr, payload, out,
                    payload_len, t_length, rxHdr, rxPayload, iter, hdrRecvs, payRecvs,
                    prevLen, busFailed >>

\* sendto(udp_sock, out, HDR_LEN + payload_len, ...): return value dropped; } of while
Forward(ret) ==
    /\ pc = "forward"
    /\ datagram' = SubSeq(out, 1, HDR_LEN + payload_len)
    /\ sendCount' = sendCount + 1
    /\ sendAttempts' = sendAttempts + 1
    /\ lastRet' = ret
    /\ pc' = "loop_top"
    /\ UNCHANGED << variant, netVars, udp_sock, peerVars, rdy, rdyWrites, rdyEdges, hdr, payload, out,
                    payload_len, t_length, rxHdr, rxPayload, iter, hdrRecvs, payRecvs,
                    prevLen, busFailed >>

\* variant of SpiFail: the receive gives up after a timeout and the loop goes on
SpiFail_timeout ==
    /\ pc \in {"wait_hdr", "wait_payload"}
    /\ pc' = IF pc = "wait_hdr" THEN "wait_payload" ELSE "forward"
    /\ UNCHANGED << variant, netVars, udp_sock, peerVars, rdy, rdyWrites, rdyEdges, hdr, payload, out,
                    payload_len, t_length, rxHdr, rxPayload, iter, hdrRecvs, payRecvs,
                    sendCount, sendAttempts, datagram, lastRet, prevLen, busFailed >>

\* variant of SpiFail: the error is not checked, the loop goes on
SpiFail_continue ==
    /\ pc \in {"wait_hdr", "wait_payload"}
    /\ busFailed' = IF pc = "wait_hdr" THEN "hdr" ELSE "payload"
    /\ pc' = IF pc = "wait_hdr" THEN "wait_payload" ELSE "forward"
    /\ UNCHANGED << variant, netVars, udp_sock, peerVars, rdy, rdyWrites, rdyEdges, hdr, payload, out,
                    payload_len, t_length, rxHdr, rxPayload, iter, hdrRecvs, payRecvs,
                    sendCount, sendAttempts, datagram, lastRet, prevLen >>

\* spi_slave_transmit returns an error: ESP_ERROR_CHECK aborts
SpiFail ==
    /\ pc \in {"wait_hdr", "wait_payload"}
    /\ busFailed' = IF pc = "wait_hdr" THEN "hdr" ELSE "payload"
    /\ Abort
    /\ UNCHANGED << variant, netVars, udp_sock, peerVars, rdy, rdyWrites, rdyEdges, hdr, payload, out,
                    payload_len, t_length, rxHdr, rxPayload, iter, hdrRecvs, payRecvs,
                    sendCount, sendAttempts, datagram, lastRet, prevLen >>

\* ------------------------------------------------- event loop task, environment
\* WIFI_EVENT_STA_START -> esp_wifi_connect()
WifiEventStaStart ==
    /\ pc # "aborted"
    /\ handlers /\ staStart
    /\ connectReqs < MaxConnects
    /\ staStart' = FALSE
    /\ wifiEvents' = wifiEvents + 1
    /\ connectReqs' = connectReqs + 1
    /\ link' = "connecting"
    /\ UNCHANGED << variant, pc, connected, handlers, provisioned, provState, provDeinits,
                    udp_sock, loopVars >>

\* variant of WifiEventStaDisconnected: the handler clears WIFI_CONNECTED_BIT
WifiEventStaDisconnected_clearsBit ==
    /\ pc # "aborted"
    /\ link \in {"connecting", "up"}
    /\ IF handlers
       THEN /\ connectReqs < MaxConnects
            /\ wifiEvents' = wifiEvents + 1
            /\ connectReqs' = connectReqs + 1
            /\ link' = "connecting"
            /\ connected' = FALSE
       ELSE /\ link' = "down"
            /\ UNCHANGED << connectReqs, wifiEvents, connected >>
    /\ UNCHANGED << variant, pc, handlers, staStart, provisioned, provState,
                    provDeinits, udp_sock, loopVars >>

\* variant of WifiEventStaDisconnected: the handler gives up after the first connect
WifiEventStaDisconnected_giveUp ==
    /\ pc # "aborted"
    /\ link \in {"connecting", "up"}
    /\ IF handlers
       THEN /\ connectReqs < MaxConnects
            /\ wifiEvents' = wifiEvents + 1
            /\ link' = "down"
            /\ UNCHANGED connectReqs
       ELSE /\ link' = "down"
            /\ UNCHANGED << connectReqs, wifiEvents >>
    /\ UNCHANGED << variant, pc, connected, handlers, staStart, provisioned, provState,
                    provDeinits, udp_sock, loopVars >>

\* WIFI_EVENT_STA_DISCONNECTED -> esp_wifi_connect(); simple has no handler
WifiEventStaDisconnected ==
    /\ pc # "aborted"
    /\ link \in {"connecting", "up"}
    /\ IF handlers
       THEN /\ connectReqs < MaxConnects
            /\ wifiEvents' = wifiEvents + 1
            /\ connectReqs' = connectReqs + 1
            /\ link' = "connecting"
       ELSE /\ link' = "down"
            /\ UNCHANGED << connectReqs, wifiEvents >>
    /\ UNCHANGED << variant, pc, connected, handlers, staStart, provisioned, provState,
                    provDeinits, udp_sock, loopVars >>

\* IP_EVENT_STA_GOT_IP -> xEventGroupSetBits(s_wifi_event_group, WIFI_CONNECTED_BIT)
IpEventStaGotIp ==
    /\ pc # "aborted"
    /\ link = "connecting" /\ provisioned
    /\ link' = "up"
    /\ connected' = (IF handlers THEN TRUE ELSE connected)
    /\ UNCHANGED << variant, pc, handlers, staStart, provisioned, provState, provDeinits,
                    connectReqs, wifiEvents, udp_sock, loopVars >>

\* the provisioning app delivers credentials; the manager stores them and connects
ProvCredRecv ==
    /\ pc # "aborted"
    /\ provState = "running" /\ ~provisioned
    /\ provisioned' = TRUE
    /\ link' = "connecting"
    /\ UNCHANGED << variant, pc, connected, handlers, staStart, provState, provDeinits,
                    connectReqs, wifiEvents, udp_sock, loopVars >>

Next ==
    \/ NvsInit
    \/ WifiInit
    \/ ProvMgrInit
    \/ BleProvisioningIfNeeded
    \/ ProvWaitDone
    \/ WaitBitsDone
    \/ DelayDone
    \/ UdpInit
    \/ SpiSlaveInitBus
    \/ LoopTop
    \/ \E prefix \in HdrPrefixes, declared \in DeclaredLens, n \in {HDR_LEN, ShortLen} :
          HeaderDone(prefix, declared, n)
    \/ \E seed \in PayloadSeeds, n \in {txDeclared, ShortLen} : PayloadDone(seed, n)
    \/ \E ret \in SendRets : Forward(ret)
    \/ SpiFail
    \/ WifiEventStaStart
    \/ WifiEventStaDisconnected
    \/ IpEventStaGotIp
    \/ ProvCredRecv

Spec == Init /\ [][Next]_vars

\* The same program with a master that clocks every transaction in full and,
\* after a header with payload_len = 0, may perform no payload transaction.
\* RDY is constantly high, so the master cannot tell which receive is pending.
NextExact ==
    \/ NvsInit
    \/ WifiInit
    \/ ProvMgrInit
    \/ BleProvisioningIfNeeded
    \/ ProvWaitDone
    \/ WaitBitsDone
    \/ DelayDone
    \/ UdpInit
    \/ SpiSlaveInitBus
    \/ LoopTop
    \/ \E prefix \in HdrPrefixes, declared \in DeclaredLens :
          HeaderDone(prefix, declared, HDR_LEN)
    \/ \E prefix \in HdrPrefixes : HeaderDoneNoEmptyTx(prefix)
    \/ \E seed \in PayloadSeeds : PayloadDone(seed, txDeclared)
    \/ \E seed \in PayloadSeeds : HeaderDoneOutOfStep(seed)
    \/ \E prefix \in HdrPrefixes, declared \in DeclaredLens, empty \in BOOLEAN :
          PayloadDoneOutOfStep(prefix, declared, empty)
    \/ \E ret \in SendRets : Forward(ret)
    \/ WifiEventStaStart
    \/ IpEventStaGotIp
    \/ ProvCredRecv

SpecExact == Init /\ [][NextExact]_vars

\* a receive of the loop completes
ReceiveDone ==
    \/ \E prefix \in HdrPrefixes, declared \in DeclaredLens :
          HeaderDone(prefix, declared, HDR_LEN)
    \/ \E prefix \in HdrPrefixes : HeaderDoneNoEmptyTx(prefix)
    \/ \E seed \in PayloadSeeds : PayloadDone(seed, txDeclared)
    \/ \E seed \in PayloadSeeds : HeaderDoneOutOfStep(seed)
    \/ \E prefix \in HdrPrefixes, declared \in DeclaredLens, empty \in BOOLEAN :
          PayloadDoneOutOfStep(prefix, declared, empty)

\* SpecExact with a main task that is scheduled, a sendto that returns and a master
\* that goes on performing transactions
LiveExact ==
    /\ SpecExact
    /\ WF_vars(LoopTop)
    /\ WF_vars(ReceiveDone)
    /\ WF_vars(\E ret \in SendRets : Forward(ret))

TypeOK ==
    /\ pc \in {"start", "wifi_init", "prov_init", "prov_if_needed", "prov_wait", "wait_bits",
               "delay", "udp_init", "spi_init", "loop_top", "wait_hdr", "wait_payload",
               "forward", "aborted"}
    /\ rdy \in {0, 1}
    /\ payload_len \in 0..65535
    /\ Len(hdr) = HDR_LEN /\ Len(payload) = PAYLOAD_MAX /\ Len(out) = HDR_LEN + PAYLOAD_MAX

\* ------------------------------------------------------------------ properties
\* this iteration's header transaction has completed
HdrIn == iter > 0 /\ hdrRecvs = iter

\* this iteration's datagram has been handed to sendto
Sent == sendAttempts > 0

\* the 10 header bytes as the header receive of this iteration left them
RecvdHdr == RxInto(ZeroFill(HDR_LEN), rxHdr)

\* the payload_len that header declares
Declared == DecodeLen(RecvdHdr)

\* C1: when the received header declares payload_len <= PAYLOAD_MAX, the datagram
\* handed to sendto is 10 + payload_len bytes long and starts with the 10 header
\* bytes received in this iteration, unchanged.
C1_HeaderForwarded ==
    (Sent /\ Declared <= PAYLOAD_MAX) =>
        /\ Len(datagram) = HDR_LEN + Declared
        /\ SubSeq(datagram, 1, HDR_LEN) = RecvdHdr

C1_Witness ==
    /\ Sent /\ Declared = 261 /\ Len(rxHdr) = HDR_LEN
    /\ Len(datagram) = 271 /\ datagram[1] = 255 /\ datagram[8] = 255

\* C2: when the received header declares payload_len > PAYLOAD_MAX, the payload
\* transaction asks for exactly PAYLOAD_MAX bytes, the datagram is 10 + PAYLOAD_MAX
\* bytes long, and the loop goes on to the next iteration.
C2_OversizeClamped ==
    (HdrIn /\ Declared > PAYLOAD_MAX) =>
        /\ payload_len = PAYLOAD_MAX
        /\ t_length = PAYLOAD_MAX * 8
        /\ Len(rxPayload) <= PAYLOAD_MAX
        /\ busFailed = "none" => pc \in {"wait_payload", "forward", "loop_top"}
        /\ Sent => (Len(datagram) = HDR_LEN + PAYLOAD_MAX /\ pc = "loop_top")

C2_Witness ==
    /\ Sent /\ Declared = 2049 /\ Len(rxPayload) = PAYLOAD_MAX
    /\ Len(datagram) = HDR_LEN + PAYLOAD_MAX /\ pc = "loop_top"

\* C3: when the declared payload_len is <= PAYLOAD_MAX and the master clocked the
\* whole header and the whole payload, the datagram is the 10 received header bytes
\* followed by the payload_len received payload bytes, in order, and nothing else.
C3_DatagramIsConcat ==
    (Sent /\ Declared <= PAYLOAD_MAX /\ Len(rxHdr) = HDR_LEN /\ Len(rxPayload) = Declared) =>
        datagram = rxHdr \o rxPayload

C3_Witness ==
    /\ Sent
    /\ rxHdr = <<1, 0, 0, 0, 2, 0, 0, 0, 5, 0>>
    /\ rxPayload = <<170, 187, 204, 221, 238>>
    /\ datagram = <<1, 0, 0, 0, 2, 0, 0, 0, 5, 0, 170, 187, 204, 221, 238>>

\* C4 (as claimed): with payload_len = 0 the payload phase never waits for a bus
\* transaction of the master, and the datagram is the 10 header bytes alone.
C4_ZeroLenDoesNotBlock ==
    (HdrIn /\ payload_len = 0) =>
        /\ pc # "wait_payload"
        /\ Sent => datagram = RecvdHdr

C6_BusFailureAborts ==
    busFailed # "none" =>
        /\ pc = "aborted"
        /\ sendAttempts = 0
        /\ sendCount = iter - 1

C6_Witness ==
    busFailed = "payload" /\ pc = "aborted" /\ iter = 2 /\ sendCount = 1

\* C7: in an iteration the header receive is complete before the payload receive
\* starts and the payload receive is complete before sendto; iteration N+1 starts
\* (ready, header receive) only after the sendto of iteration N has returned.
C7_StrictOrder ==
    /\ pc = "wait_hdr" =>
          (hdrRecvs = iter - 1 /\ payRecvs = iter - 1 /\ sendCount = iter - 1)
    /\ pc = "wait_payload" =>
          (hdrRecvs = iter /\ payRecvs = iter - 1 /\ sendCount = iter - 1)
    /\ pc = "forward" =>
          (hdrRecvs = iter /\ payRecvs = iter /\ sendCount = iter - 1)
    /\ pc = "loop_top" =>
          (hdrRecvs = iter /\ payRecvs = iter /\ sendCount = iter)

C7_Witness ==
    pc = "wait_hdr" /\ iter = 2 /\ sendCount = 1 /\ hdrRecvs = 1 /\ payRecvs = 1

\* C8: every byte of an iteration's datagram is a byte clocked in during that
\* iteration or a zero of that iteration's memset, whatever the previous
\* iteration received and whether its payload_len was shorter or longer.
C8_NoLeakAcrossIterations ==
    Sent => datagram = RecvdHdr \o RxInto(ZeroFill(payload_len), rxPayload)

C8_Witness ==
    /\ Sent /\ iter = 2 /\ prevLen = PAYLOAD_MAX
    /\ payload_len = 5 /\ Len(rxPayload) = ShortLen
    /\ datagram[HDR_LEN + 5] = 0

\* C9 (as claimed): udp_init and the loop run only after the IP-acquired event has
\* set the connected flag.
C9_LoopOnlyWhenConnected ==
    (pc \in {"spi_init", "loop_top", "wait_hdr", "wait_payload", "forward"} \/ iter > 0)
        => connected

\* C10: whatever sendto returns, the unit gets exactly one send attempt and the
\* loop is then at the top of the next iteration, the process still running.
C10_SendOnceThenLoop ==
    [][pc = "forward" =>
          \/ pc' = "forward" /\ sendCount' = sendCount /\ sendAttempts' = sendAttempts
          \/ /\ pc' = "loop_top"
             /\ sendCount' = sendCount + 1
             /\ sendAttempts = 0 /\ sendAttempts' = 1]_vars

C10_Witness ==
    lastRet = -1 /\ pc = "loop_top" /\ iter = 2 /\ sendCount = 2 /\ sendAttempts = 1

\* positions of the main task inside the forwarding loop
LoopPcs == {"loop_top", "wait_hdr", "wait_payload", "forward"}

\* C11 (as claimed): with a master that clocks each unit in full, the header
\* receive of every later iteration takes the master's next header, whatever
\* payload_len an earlier header declared.
C11_LaterHeadersAligned ==
    (HdrIn /\ iter > 1) => inSync

\* C12: one sendto per received unit: the number of sendto calls equals the number
\* of completed header+payload receive pairs whenever an iteration is complete,
\* and a datagram is sent only after this iteration's header and payload receive.
C12_OneDatagramPerUnit ==
    /\ sendCount <= payRecvs /\ payRecvs <= hdrRecvs /\ hdrRecvs <= sendCount + 1
    /\ pc = "loop_top" => (sendCount = payRecvs /\ payRecvs = hdrRecvs)
    /\ Sent => (hdrRecvs = iter /\ payRecvs = iter /\ sendAttempts = 1)

C12_Witness ==
    pc = "loop_top" /\ iter = 2 /\ sendCount = 2 /\ payRecvs = 2 /\ hdrRecvs = 2

\* C13: a pending receive has no timeout: the loop leaves it only when the master
\* has performed the transaction or the driver has failed (abort); until then it
\* stays where it is and sends nothing.
C13_NoTimeout ==
    [][(pc = "wait_hdr" \/ pc = "wait_payload") =>
          (\/ pc' = pc /\ sendCount' = sendCount /\ iter' = iter
           \/ pc' = "aborted" /\ busFailed' # "none"
           \/ (hdrRecvs' + payRecvs') = (hdrRecvs + payRecvs + 1))
    ]_vars

C13_Witness ==
    pc = "wait_payload" /\ iter = 2 /\ payRecvs = 1 /\ sendAttempts = 0 /\ t_length = 40

\* C14: the payload length used is min(hdr[8] + 256 * hdr[9], PAYLOAD_MAX); it
\* fixes the size of the payload receive and of the datagram, and bytes 0..7 of
\* the header play no part.
C14_LenFromBytes8And9 ==
    HdrIn =>
        LET len == Min(RecvdHdr[9] + 256 * RecvdHdr[10], PAYLOAD_MAX)
        IN  /\ payload_len = len
            /\ t_length = 8 * len
            /\ Sent => Len(datagram) = HDR_LEN + len

C14_Witness ==
    /\ HdrIn /\ pc = "wait_payload" /\ Len(rxHdr) = HDR_LEN
    /\ rxHdr[1] = 255 /\ rxHdr[9] = 5 /\ rxHdr[10] = 1
    /\ payload_len = 261 /\ t_length = 2088

\* C15: once spi_slave_init_bus has raised the ready line it is high in every
\* state of the loop, and no step takes it from high to low.
C15_ReadyStaysHigh ==
    [][(rdy = 1 => rdy' = 1) /\ (pc' \in LoopPcs => rdy' = 1)]_vars

C15_Witness ==
    rdy = 1 /\ pc = "forward" /\ iter = 2 /\ rdyEdges = 0

\* C16: with a master that keeps performing transactions and no bus failure, the
\* loop has no terminal state: from its first pending header receive it goes on
\* through every iteration the model allows, and each of them ends with the unit
\* handed to sendto and control back at the top of the loop.
C16_LoopNeverEnds ==
    (pc = "wait_hdr" /\ iter = 1)
        ~> (pc = "loop_top" /\ iter = MaxIter /\ sendCount = MaxIter /\ sendAttempts = 1)

C16_Witness ==
    pc = "loop_top" /\ iter = MaxIter /\ sendCount = MaxIter /\ busFailed = "none"

\* C17: in the provisioning build, provisioning is started only when the device is
\* not provisioned; once started, ble_provisioning_if_needed returns only with the
\* connected flag set; and the manager has been deinitialised at least once
\* before udp_init, spi_slave_init_bus and the loop.
C17_ProvisioningOrder ==
    [][/\ (provState # "running" /\ provState' = "running") => ~provisioned
       /\ (pc = "prov_wait" /\ pc' # "prov_wait") => connected
       /\ (variant = "prov" /\ pc' \in ({"udp_init", "spi_init"} \cup LoopPcs))
             => provDeinits' >= 1
    ]_vars

C17_Witness ==
    variant = "prov" /\ provDeinits = 2 /\ pc = "wait_hdr" /\ connected /\ provisioned

\* C18: the connected flag is set only by the IP-acquired event and never cleared;
\* a disconnection makes the handler ask for a reconnect and leaves the main task
\* where it is, and the loop can still step and send while the link is down.
C18_ConnectedMonotonic ==
    [][/\ connected => connected'
       /\ (~connected /\ connected') => (link = "connecting" /\ link' = "up")
       /\ (handlers /\ link = "up" /\ link' # "up")
             => (connectReqs' = connectReqs + 1 /\ pc' = pc /\ sendCount' = sendCount)
       /\ (pc = "forward" /\ link # "up") => ENABLED (\E ret \in SendRets : Forward(ret))
    ]_vars

C18_Witness ==
    variant = "prov" /\ connected /\ link = "connecting" /\ pc = "forward" /\ connectReqs = 2

\* C19: every station-start and station-disconnected event given to the handler
\* makes exactly one esp_wifi_connect() call, however many came before, and
\* leaves the connected flag as it was.
C19_OneConnectPerEvent ==
    [][/\ wifiEvents' # wifiEvents =>
             /\ wifiEvents' = wifiEvents + 1
             /\ connectReqs' = connectReqs + 1
             /\ connected' = connected
       /\ variant = "prov" => connectReqs' = wifiEvents'
    ]_vars

C19_Witness ==
    variant = "prov" /\ wifiEvents = MaxConnects /\ connectReqs = MaxConnects /\ connected

\* C20: after the clamp 0 <= payload_len <= PAYLOAD_MAX: the payload transaction
\* fits the payload buffer and the bus maximum, the copy into out stays inside
\* out, and the length given to sendto is at most HDR_LEN + PAYLOAD_MAX.
C20_LengthsInBounds ==
    HdrIn =>
        /\ payload_len >= 0 /\ payload_len <= PAYLOAD_MAX
        /\ t_length <= Len(payload) * 8
        /\ t_length <= max_transfer_sz * 8
        /\ Len(rxPayload) <= Len(payload)
        /\ HDR_LEN + payload_len <= Len(out)
        /\ Len(datagram) <= HDR_LEN + PAYLOAD_MAX

C20_Witness ==
    HdrIn /\ Declared = 2049 /\ payload_len = PAYLOAD_MAX /\ pc = "forward"
====
